---- MODULE Spec2Model ----
(***************************************************************************)
(* pgn2json: PGNConverter.convert_to_json (pgn_conversion.py) converts one *)
(* PGN game into the chess-study JSON document.  The model covers          *)
(*   - the python-chess board the converter drives (piece_at, is_capture,  *)
(*     is_en_passant, is_castling, push, fen), with the semantics of       *)
(*     python-chess 1.x, squares numbered a1 = 0 .. h8 = 63;               *)
(*   - chess.pgn.read_game, which builds the main line out of legal moves  *)
(*     (and null moves "--") and attaches comments to its nodes;           *)
(*   - _determine_flags, _extract_comment, _generate_comment,              *)
(*     _generate_move_info, the loop of convert_to_json and the save.      *)
(* Strings are TLA+ strings; move.uci() is kept as its characters so that  *)
(* uci()[-1] is an index; a FEN is kept as its six space-separated fields. *)
(* The record fields san (board.san), moveId (random), variants and shapes *)
(* (always empty) are not modelled.                                        *)
(***************************************************************************)
EXTENDS Integers, Sequences, FiniteSets, TLC

(***************************************************************************)
(* Bounds of the model.                                                    *)
(***************************************************************************)
\* longest main line read from a custom (FEN header) starting position
MaxPly == 2
\* longest main line read from the standard starting position
MaxPlyStandard == 1
\* most nodes of one main line that carry a comment
MaxComments == 1

(***************************************************************************)
(* python-chess: squares, colours, pieces.                                 *)
(***************************************************************************)
Squares == 0 .. 63

WHITE == TRUE
BLACK == FALSE

\* Python's None for an optional piece / piece type / promotion / comment
None == "None"

FILE_NAMES == <<"a", "b", "c", "d", "e", "f", "g", "h">>
RANK_NAMES == <<"1", "2", "3", "4", "5", "6", "7", "8">>

square_file(sq) == sq % 8
square_rank(sq) == sq \div 8
square(file, rank) == rank * 8 + file
square_name(sq) == FILE_NAMES[square_file(sq) + 1] \o RANK_NAMES[square_rank(sq) + 1]

Abs(x) == IF x < 0 THEN -x ELSE x
Max(x, y) == IF x < y THEN y ELSE x

\* Piece symbols; a piece type is written as its lowercase symbol
WhiteSymbols == {"P", "N", "B", "R", "Q", "K"}
BlackSymbols == {"p", "n", "b", "r", "q", "k"}
PAWN == "p"
KNIGHT == "n"
BISHOP == "b"
ROOK == "r"
QUEEN == "q"
KING == "k"

\* str.lower() on a piece symbol
lower(s) ==
    CASE s = "P" -> "p" [] s = "N" -> "n" [] s = "B" -> "b"
      [] s = "R" -> "r" [] s = "Q" -> "q" [] s = "K" -> "k"
      [] OTHER -> s

\* str.upper() on a piece symbol
upper(s) ==
    CASE s = "p" -> "P" [] s = "n" -> "N" [] s = "b" -> "B"
      [] s = "r" -> "R" [] s = "q" -> "Q" [] s = "k" -> "K"
      [] OTHER -> s

\* chess.Piece(piece_type, color).symbol()
piece_symbol(piece_type, color) == IF color = WHITE THEN upper(piece_type) ELSE piece_type

\* chess.Piece.color of the piece with this symbol
piece_color(s) == s \in WhiteSymbols

\* chess.Move: from_square, to_square, promotion (a piece type or None)
Move(from, to, promo) == [from_square |-> from, to_square |-> to, promotion |-> promo]

\* chess.Move.null(): 0000
NullMove == Move(0, 0, None)

\* chess.Move.__bool__
move_bool(move) == move.from_square # 0 \/ move.to_square # 0 \/ move.promotion # None

\* the characters of chess.Move.uci()
uci_chars(move) ==
    IF move_bool(move)
    THEN <<FILE_NAMES[square_file(move.from_square) + 1],
           RANK_NAMES[square_rank(move.from_square) + 1],
           FILE_NAMES[square_file(move.to_square) + 1],
           RANK_NAMES[square_rank(move.to_square) + 1]>>
         \o (IF move.promotion # None THEN <<move.promotion>> ELSE <<>>)
    ELSE <<"0", "0", "0", "0">>

RECURSIVE join(_)
\* "".join(chars)
join(chars) == IF chars = <<>> THEN "" ELSE Head(chars) \o join(Tail(chars))

\* chess.Move.uci()
uci(move) == join(uci_chars(move))

(***************************************************************************)
(* python-chess: chess.Board queries.  A board is a record                 *)
(*   pieces          square -> piece symbol or None                        *)
(*   turn            side to move                                          *)
(*   castling_rights the rook squares that keep a castling right           *)
(*   ep_square       {} (None) or {the en-passant target}                  *)
(*   halfmove_clock, fullmove_number                                       *)
(***************************************************************************)
piece_at(board, sq) == board.pieces[sq]

piece_type_at(board, sq) ==
    IF board.pieces[sq] = None THEN None ELSE lower(board.pieces[sq])

\* occupied_co[color] & BB_SQUARES[sq]
occupied_co(pieces, color, sq) == pieces[sq] # None /\ piece_color(pieces[sq]) = color

\* BB_SQUARES[from_square] ^ BB_SQUARES[to_square]
touched(move) ==
    IF move.from_square = move.to_square THEN {} ELSE {move.from_square, move.to_square}

is_en_passant(board, move) ==
    /\ move.to_square \in board.ep_square
    /\ piece_type_at(board, move.from_square) = PAWN
    /\ Abs(move.to_square - move.from_square) \in {7, 9}
    /\ board.pieces[move.to_square] = None

is_capture(board, move) ==
    \/ \E sq \in touched(move) : occupied_co(board.pieces, ~board.turn, sq)
    \/ is_en_passant(board, move)

is_castling(board, move) ==
    IF piece_type_at(board, move.from_square) = KING
    THEN \/ Abs(square_file(move.from_square) - square_file(move.to_square)) > 1
         \/ /\ piece_type_at(board, move.to_square) = ROOK
            /\ occupied_co(board.pieces, board.turn, move.to_square)
    ELSE FALSE

is_kingside_castling(board, move) ==
    is_castling(board, move) /\ square_file(move.to_square) > square_file(move.from_square)

is_queenside_castling(board, move) ==
    is_castling(board, move) /\ square_file(move.to_square) < square_file(move.from_square)

is_zeroing(board, move) ==
    \E sq \in touched(move) :
        piece_type_at(board, sq) = PAWN \/ occupied_co(board.pieces, ~board.turn, sq)

\* chess.Board.clean_castling_rights(), standard chess
clean_castling_rights(board) ==
    LET white == IF board.pieces[4] = "K"
                 THEN {sq \in board.castling_rights \cap {0, 7} : board.pieces[sq] = "R"}
                 ELSE {}
        black == IF board.pieces[60] = "k"
                 THEN {sq \in board.castling_rights \cap {56, 63} : board.pieces[sq] = "r"}
                 ELSE {}
    IN  white \cup black

\* chess.Board._to_chess960: castling as "king takes own rook"
to_chess960(board, move) ==
    CASE move.from_square = 4 /\ board.pieces[4] \in {"K", "k"}
           /\ move.to_square = 6 /\ piece_type_at(board, 6) # ROOK -> Move(4, 7, None)
      [] move.from_square = 4 /\ board.pieces[4] \in {"K", "k"}
           /\ move.to_square = 2 /\ piece_type_at(board, 2) # ROOK -> Move(4, 0, None)
      [] move.from_square = 60 /\ board.pieces[60] \in {"K", "k"}
           /\ move.to_square = 62 /\ piece_type_at(board, 62) # ROOK -> Move(60, 63, None)
      [] move.from_square = 60 /\ board.pieces[60] \in {"K", "k"}
           /\ move.to_square = 58 /\ piece_type_at(board, 58) # ROOK -> Move(60, 56, None)
      [] OTHER -> move

\* push: a pawn's two-square advance from its home rank
double_push(move, piece_type) ==
    /\ piece_type = PAWN
    /\ \/ /\ move.to_square - move.from_square = 16
          /\ square_rank(move.from_square) = 1
       \/ /\ move.to_square - move.from_square = -16
          /\ square_rank(move.from_square) = 6

\* push: the pawn captures en passant (the branch that removes the passed pawn)
ep_capture(board, move, piece_type, captured_piece_type) ==
    /\ piece_type = PAWN
    /\ ~double_push(move, piece_type)
    /\ move.to_square \in board.ep_square
    /\ Abs(move.to_square - move.from_square) \in {7, 9}
    /\ captured_piece_type = None

\* push: castling rights lost by the squares touched, a king move, a king capture
castling_rights_after(board, move, piece_type, captured_piece_type, rights) ==
    CASE piece_type = KING ->
           IF board.turn = WHITE THEN rights \ (0 .. 7) ELSE rights \ (56 .. 63)
      [] piece_type # KING /\ captured_piece_type = KING ->
           IF board.turn = WHITE /\ square_rank(move.to_square) = 7 THEN rights \ (56 .. 63)
           ELSE IF board.turn = BLACK /\ square_rank(move.to_square) = 0
                THEN rights \ (0 .. 7)
                ELSE rights
      [] OTHER -> rights

\* push: _remove_piece_at the origin and, en passant, the pawn behind the target
lift(board, move, en_passant) ==
    [sq \in Squares |->
        IF \/ sq = move.from_square
           \/ en_passant /\ sq = move.to_square + (IF board.turn = WHITE THEN -8 ELSE 8)
        THEN None
        ELSE board.pieces[sq]]

\* push: castle (king onto its own rook) or put the piece on the target square
put_down(lifted, turn, move, placed_type) ==
    LET a_side == square_file(move.to_square) < square_file(move.from_square)
        back == IF turn = WHITE THEN 0 ELSE 56
    IN  IF placed_type = KING /\ occupied_co(lifted, turn, move.to_square)
        THEN [sq \in Squares |->
                 IF sq = back + (IF a_side THEN 2 ELSE 6) THEN piece_symbol(KING, turn)
                 ELSE IF sq = back + (IF a_side THEN 3 ELSE 5) THEN piece_symbol(ROOK, turn)
                 ELSE IF sq = move.from_square \/ sq = move.to_square THEN None
                 ELSE lifted[sq]]
        ELSE [lifted EXCEPT ![move.to_square] = piece_symbol(placed_type, turn)]

\* push, for a move that is not null: the pieces after it
pieces_after(board, move, piece_type, captured_piece_type) ==
    put_down(lift(board, move, ep_capture(board, move, piece_type, captured_piece_type)),
             board.turn, move,
             IF move.promotion # None THEN move.promotion ELSE piece_type)

\* push, after _to_chess960
push_chess960(board, move) ==
    IF ~move_bool(move)
    THEN [pieces |-> board.pieces,
          turn |-> ~board.turn,
          castling_rights |-> clean_castling_rights(board),
          ep_square |-> {},
          halfmove_clock |-> board.halfmove_clock + 1,
          fullmove_number |-> board.fullmove_number + (IF board.turn = BLACK THEN 1 ELSE 0)]
    ELSE [pieces |-> pieces_after(board, move, piece_type_at(board, move.from_square),
                                  piece_type_at(board, move.to_square)),
          turn |-> ~board.turn,
          castling_rights |->
              castling_rights_after(board, move, piece_type_at(board, move.from_square),
                                    piece_type_at(board, move.to_square),
                                    clean_castling_rights(board)
                                        \ {move.from_square, move.to_square}),
          ep_square |-> IF double_push(move, piece_type_at(board, move.from_square))
                        THEN {(move.from_square + move.to_square) \div 2}
                        ELSE {},
          halfmove_clock |-> IF is_zeroing(board, move) THEN 0
                             ELSE board.halfmove_clock + 1,
          fullmove_number |-> board.fullmove_number + (IF board.turn = BLACK THEN 1 ELSE 0)]

\* chess.Board.push(move): the position after the move
push(board, move) == push_chess960(board, to_chess960(board, move))

(***************************************************************************)
(* python-chess: attacks and legal moves (what parse_san accepts, and what *)
(* fen() consults for the en-passant field).                               *)
(***************************************************************************)
\* the squares strictly between two squares of one rank, file or diagonal
between(a, b) ==
    LET n == Max(Abs(square_file(b) - square_file(a)), Abs(square_rank(b) - square_rank(a)))
        step == (b - a) \div n
    IN  {a + i * step : i \in 1 .. (n - 1)}

\* the piece on `from` attacks `to` (BB_*_ATTACKS and the sliders' rays)
attacks(pieces, from, to) ==
    LET df == Abs(square_file(to) - square_file(from))
        dr == Abs(square_rank(to) - square_rank(from))
        type == lower(pieces[from])
        line == from # to /\ (df = 0 \/ dr = 0)
        diagonal == from # to /\ df = dr
        clear == \A sq \in between(from, to) : pieces[sq] = None
    IN  CASE type = PAWN ->
               /\ df = 1
               /\ square_rank(to) - square_rank(from)
                      = (IF piece_color(pieces[from]) = WHITE THEN 1 ELSE -1)
          [] type = KNIGHT -> {df, dr} = {1, 2}
          [] type = KING -> Max(df, dr) = 1
          [] type = ROOK -> line /\ clear
          [] type = BISHOP -> diagonal /\ clear
          [] type = QUEEN -> (line \/ diagonal) /\ clear
          [] OTHER -> FALSE

\* chess.Board.is_attacked_by(color, square)
is_attacked_by(pieces, color, sq) ==
    \E from \in Squares : occupied_co(pieces, color, from) /\ attacks(pieces, from, sq)

\* the side that just moved left its king attacked
leaves_king_attacked(board, move) ==
    LET after == push(board, move)
    IN  \E sq \in Squares :
            /\ after.pieces[sq] = piece_symbol(KING, board.turn)
            /\ is_attacked_by(after.pieces, ~board.turn, sq)

\* chess.Board.generate_pseudo_legal_ep
pseudo_legal_ep(board) ==
    {m \in {Move(from, to, None) : from \in Squares, to \in board.ep_square} :
        /\ board.pieces[m.to_square] = None
        /\ board.pieces[m.from_square] = piece_symbol(PAWN, board.turn)
        /\ attacks(board.pieces, m.from_square, m.to_square)
        /\ square_rank(m.from_square) = (IF board.turn = WHITE THEN 4 ELSE 3)}

\* chess.Board.has_legal_en_passant()
has_legal_en_passant(board) ==
    \E m \in pseudo_legal_ep(board) : ~leaves_king_attacked(board, m)

\* the promotions a pawn move to this square offers
promotions(to) ==
    IF square_rank(to) \in {0, 7} THEN {QUEEN, ROOK, BISHOP, KNIGHT} ELSE {None}

\* the pawn moves of chess.Board.generate_pseudo_legal_moves
pseudo_legal_pawn_moves(board, from) ==
    LET forward == IF board.turn = WHITE THEN 8 ELSE -8
        home == IF board.turn = WHITE THEN 1 ELSE 6
        single == {to \in {from + forward} \cap Squares : board.pieces[to] = None}
        double == {to \in {from + 2 * forward} \cap Squares :
                      /\ square_rank(from) = home
                      /\ board.pieces[from + forward] = None
                      /\ board.pieces[to] = None}
        captures == {to \in Squares :
                        /\ attacks(board.pieces, from, to)
                        /\ occupied_co(board.pieces, ~board.turn, to)}
    IN  UNION {{Move(from, to, promo) : promo \in promotions(to)} :
                   to \in single \cup double \cup captures}

\* chess.Board.generate_castling_moves, standard chess
castling_moves(board) ==
    LET back == IF board.turn = WHITE THEN 0 ELSE 56
        king == back + 4
        unkinged == [board.pieces EXCEPT ![king] = None]
        allowed(rook, empty, king_path, king_to, rook_to) ==
            /\ rook \in clean_castling_rights(board)
            /\ \A sq \in empty : board.pieces[sq] = None
            /\ \A sq \in king_path \cup {king} : ~is_attacked_by(unkinged, ~board.turn, sq)
            /\ ~is_attacked_by([unkinged EXCEPT ![rook] = None,
                                                ![rook_to] = piece_symbol(ROOK, board.turn)],
                               ~board.turn, king_to)
    IN  (IF allowed(back + 7, {back + 5, back + 6}, {back + 5}, back + 6, back + 5)
         THEN {Move(king, back + 6, None)} ELSE {})
        \cup
        (IF allowed(back, {back + 1, back + 2, back + 3}, {back + 3}, back + 2, back + 3)
         THEN {Move(king, back + 2, None)} ELSE {})

\* chess.Board.generate_pseudo_legal_moves
pseudo_legal_moves(board) ==
    LET own == {sq \in Squares : occupied_co(board.pieces, board.turn, sq)}
        pawns == {sq \in own : piece_type_at(board, sq) = PAWN}
        piece_moves == {m \in {Move(from, to, None) : from \in own \ pawns, to \in Squares} :
                           /\ attacks(board.pieces, m.from_square, m.to_square)
                           /\ ~occupied_co(board.pieces, board.turn, m.to_square)}
    IN  piece_moves
        \cup UNION {pseudo_legal_pawn_moves(board, from) : from \in pawns}
        \cup pseudo_legal_ep(board)
        \cup castling_moves(board)

\* chess.Board.legal_moves
legal_moves(board) ==
    {m \in pseudo_legal_moves(board) : ~leaves_king_attacked(board, m)}

(***************************************************************************)
(* python-chess: chess.Board.fen(), en_passant="legal" (the default).      *)
(***************************************************************************)
\* str(n) of an empty-square count, nothing for zero
empty_run(n) == IF n > 0 THEN ToString(n) ELSE ""

RECURSIVE rank_fen(_, _, _, _)
\* one rank of chess.Board.board_fen(), from this file on
rank_fen(pieces, rank, file, empty) ==
    IF file = 8 THEN empty_run(empty)
    ELSE IF pieces[square(file, rank)] = None
         THEN rank_fen(pieces, rank, file + 1, empty + 1)
         ELSE empty_run(empty) \o pieces[square(file, rank)]
                  \o rank_fen(pieces, rank, file + 1, 0)

RECURSIVE ranks_fen(_, _)
\* chess.Board.board_fen(): ranks 8 down to 1, joined by "/"
ranks_fen(pieces, rank) ==
    IF rank = 0 THEN rank_fen(pieces, 0, 0, 0)
    ELSE rank_fen(pieces, rank, 0, 0) \o "/" \o ranks_fen(pieces, rank - 1)

board_fen(board) == ranks_fen(board.pieces, 7)

\* chess.Board.castling_xfen(), standard chess
castling_xfen(board) ==
    LET rights == clean_castling_rights(board)
    IN  IF rights = {} THEN "-"
        ELSE (IF 7 \in rights THEN "K" ELSE "") \o (IF 0 \in rights THEN "Q" ELSE "")
             \o (IF 63 \in rights THEN "k" ELSE "") \o (IF 56 \in rights THEN "q" ELSE "")

\* variant of ep_fen: the en-passant square after every two-square push (en_passant="fen")
ep_fen_always(board) ==
    IF board.ep_square # {}
    THEN square_name(CHOOSE sq \in board.ep_square : TRUE)
    ELSE "-"

\* the en-passant field of chess.Board.fen()
ep_fen(board) ==
    IF has_legal_en_passant(board)
    THEN square_name(CHOOSE sq \in board.ep_square : TRUE)
    ELSE "-"

\* chess.Board.fen(), as its six space-separated fields
fen(board) ==
    <<board_fen(board),
      IF board.turn = WHITE THEN "w" ELSE "b",
      castling_xfen(board),
      ep_fen(board),
      ToString(board.halfmove_clock),
      ToString(board.fullmove_number)>>

(***************************************************************************)
(* Inputs: the PGN text, as chess.pgn.read_game sees it.                   *)
(***************************************************************************)
\* a position with these pieces and nothing else
Place(placement) ==
    [sq \in Squares |-> IF sq \in DOMAIN placement THEN placement[sq] ELSE None]

\* chess.STARTING_FEN: game.board() of a game without a FEN header
StandardStart ==
    [pieces |-> [sq \in Squares |->
                    CASE sq \in 0 .. 7 -> <<"R", "N", "B", "Q", "K", "B", "N", "R">>[sq + 1]
                      [] sq \in 8 .. 15 -> "P"
                      [] sq \in 48 .. 55 -> "p"
                      [] sq \in 56 .. 63 -> <<"r", "n", "b", "q", "k", "b", "n", "r">>[sq - 55]
                      [] OTHER -> None],
     turn |-> WHITE,
     castling_rights |-> {0, 7, 56, 63},
     ep_square |-> {},
     halfmove_clock |-> 0,
     fullmove_number |-> 1]

\* FEN header "7k/3p1p2/8/4P3/8/8/P7/7K b - - 0 1": double pushes beside a white pawn
EnPassantStart ==
    [pieces |-> Place((7 :> "K") @@ (8 :> "P") @@ (36 :> "P")
                      @@ (63 :> "k") @@ (51 :> "p") @@ (53 :> "p")),
     turn |-> BLACK,
     castling_rights |-> {},
     ep_square |-> {},
     halfmove_clock |-> 0,
     fullmove_number |-> 1]

\* FEN header "n6k/1P6/8/8/8/8/8/7K w - - 0 1": a pawn that promotes with or without capture
PromotionStart ==
    [pieces |-> Place((7 :> "K") @@ (49 :> "P") @@ (56 :> "n") @@ (63 :> "k")),
     turn |-> WHITE,
     castling_rights |-> {},
     ep_square |-> {},
     halfmove_clock |-> 0,
     fullmove_number |-> 1]

\* FEN header "7k/8/8/8/8/p6p/P6P/R3K2R w KQ - 0 1": both white castlings, a1 occupied
CastlingStart ==
    [pieces |-> Place((0 :> "R") @@ (4 :> "K") @@ (7 :> "R") @@ (8 :> "P") @@ (15 :> "P")
                      @@ (16 :> "p") @@ (23 :> "p") @@ (63 :> "k")),
     turn |-> WHITE,
     castling_rights |-> {0, 7},
     ep_square |-> {},
     halfmove_clock |-> 0,
     fullmove_number |-> 1]

CustomStarts == {EnPassantStart, PromotionStart, CastlingStart}

\* chess.pgn.Headers(): the tag roster defaults a game starts with
DefaultHeaders == [White |-> "?", Black |-> "?"]

\* the header tags of the PGN text the converter reads
FullTags == [White |-> "Ann", WhiteElo |-> "1500", Black |-> "Bob",
             BlackElo |-> "1600", Link |-> "url"]

\* the tags with one of them left out of the PGN text
without(tags, key) == [k \in DOMAIN tags \ {key} |-> tags[k]]

\* the PGN texts: every start with all tags, one start with each tag missing
GameInputs ==
    {[tags |-> FullTags, start |-> start] : start \in CustomStarts \cup {StandardStart}}
    \cup {[tags |-> without(FullTags, key), start |-> StandardStart] : key \in DOMAIN FullTags}

\* node.comment of a main-line node, as characters; <<>> is the empty string
Comments == {<<>>, <<"o", "k", "\n", "!">>}

(***************************************************************************)
(* Constants.POSITION_FLAGS, each flag as its characters.                  *)
(***************************************************************************)
POSITION_FLAGS ==
    [normal |-> <<"n">>,
     capture |-> <<"c">>,
     en_passant |-> <<"e">>,
     kingside_castling |-> <<"k">>,
     queenside_castling |-> <<"q">>,
     pawn_push_double |-> <<"b">>,
     promotion |-> <<"p">>]

(***************************************************************************)
(* PGNConverter: the helpers of convert_to_json.                           *)
(***************************************************************************)
\* `ch in text` for a character and a string kept as its characters
char_in(ch, chars) == \E i \in 1 .. Len(chars) : chars[i] = ch

\* str.replace("\n", " ") on a string kept as its characters
replace_newlines(chars) == [i \in 1 .. Len(chars) |-> IF chars[i] = "\n" THEN " " ELSE chars[i]]

RECURSIVE extract_comment(_, _)
\* PGNConverter._extract_comment: `nodes` are the main-line nodes after `node`;
\* the result is the comment's characters, <<>> for None
extract_comment(nodes, move) ==
    IF nodes = <<>> THEN <<>>
    ELSE IF Head(nodes).move = move
         THEN (IF Head(nodes).comment # <<>> THEN replace_newlines(Head(nodes).comment)
               ELSE <<>>)
         ELSE extract_comment(Tail(nodes), move)

\* JSON null in the "comment" field
NullComment == [type |-> "null"]

\* PGNConverter._generate_comment
generate_comment(game_nodes, move) ==
    LET comment == extract_comment(game_nodes, move)
    IN  IF comment # <<>>
        THEN [type |-> "doc",
              content |-> <<[type |-> "paragraph",
                             content |-> <<[type |-> "text", text |-> join(comment)]>>]>>]
        ELSE NullComment

\* variant of determine_flags: the promotion test moved in front of the capture test
determine_flags_promotion_first(board, move) ==
    IF move.promotion # None THEN POSITION_FLAGS.promotion
    ELSE IF is_capture(board, move)
    THEN (IF is_en_passant(board, move) THEN POSITION_FLAGS.en_passant
          ELSE POSITION_FLAGS.capture)
    ELSE IF is_kingside_castling(board, move) THEN POSITION_FLAGS.kingside_castling
    ELSE IF is_queenside_castling(board, move) THEN POSITION_FLAGS.queenside_castling
    ELSE IF /\ piece_type_at(board, move.from_square) = PAWN
            /\ Abs(move.from_square - move.to_square) = 16
         THEN POSITION_FLAGS.pawn_push_double
    ELSE POSITION_FLAGS.normal

\* PGNConverter._determine_flags
determine_flags(board, move) ==
    IF is_capture(board, move)
    THEN (IF is_en_passant(board, move) THEN POSITION_FLAGS.en_passant
          ELSE POSITION_FLAGS.capture)
    ELSE IF is_kingside_castling(board, move) THEN POSITION_FLAGS.kingside_castling
    ELSE IF is_queenside_castling(board, move) THEN POSITION_FLAGS.queenside_castling
    ELSE IF /\ piece_type_at(board, move.from_square) = PAWN
            /\ Abs(move.from_square - move.to_square) = 16
         THEN POSITION_FLAGS.pawn_push_double
    ELSE IF move.promotion # None THEN POSITION_FLAGS.promotion
    ELSE POSITION_FLAGS.normal

\* variant of generate_move_info: the check for a missing piece left out
generate_move_info_unchecked(board, move, flags, before_fen, after_fen, game_nodes) ==
    [raised |-> None,
     move_info |-> [color |-> IF board.turn = BLACK THEN "w" ELSE "b",
                    piece |-> lower(piece_at(board, move.from_square)),
                    from |-> square_name(move.from_square),
                    to |-> square_name(move.to_square),
                    flags |-> join(flags),
                    lan |-> uci(move),
                    before |-> before_fen,
                    after |-> after_fen,
                    comment |-> generate_comment(game_nodes, move)]]

\* variant of generate_move_info: "captured" read from the square the move starts from
generate_move_info_captured_from_origin(board, move, flags, before_fen, after_fen, game_nodes) ==
    LET unchecked == generate_move_info_unchecked(board, move, flags, before_fen, after_fen,
                                                  game_nodes).move_info
        captured == IF is_en_passant(board, move) THEN "p" ELSE unchecked.piece
        with_captured == IF char_in("c", flags) THEN ("captured" :> captured) @@ unchecked
                         ELSE unchecked
        with_promotion == IF char_in("p", flags)
                          THEN ("promotion" :> uci_chars(move)[Len(uci_chars(move))])
                               @@ with_captured
                          ELSE with_captured
    IN  IF piece_at(board, move.from_square) = None
        THEN [raised |-> "ValueError"]
        ELSE [raised |-> None, move_info |-> with_promotion]

\* PGNConverter._generate_move_info: [raised, move_info]
generate_move_info(board, move, flags, before_fen, after_fen, game_nodes) ==
    LET piece_moved_obj == piece_at(board, move.from_square)
        base == [color |-> IF board.turn = BLACK THEN "w" ELSE "b",
                 piece |-> lower(piece_moved_obj),
                 from |-> square_name(move.from_square),
                 to |-> square_name(move.to_square),
                 flags |-> join(flags),
                 lan |-> uci(move),
                 before |-> before_fen,
                 after |-> after_fen,
                 comment |-> generate_comment(game_nodes, move)]
        captured == IF is_en_passant(board, move) THEN "p"
                    ELSE IF piece_at(board, move.to_square) # None
                         THEN lower(piece_at(board, move.to_square))
                         ELSE None
        with_captured == IF char_in("c", flags) THEN ("captured" :> captured) @@ base
                         ELSE base
        with_promotion == IF char_in("p", flags)
                          THEN ("promotion" :> uci_chars(move)[Len(uci_chars(move))])
                               @@ with_captured
                          ELSE with_captured
    IN  IF piece_moved_obj = None
        THEN [raised |-> "ValueError"]
        ELSE [raised |-> None, move_info |-> with_promotion]

\* the fields of the empty string passed as the temporary after_fen
EmptyFen == <<"">>

\* variant of mainline_pass: the "after" encoding taken before board.push(move)
mainline_pass_after_before_push(board, move, game_nodes) ==
    LET result == generate_move_info(board, move, determine_flags(board, move),
                                     fen(board), fen(board), game_nodes)
    IN  IF result.raised # None
        THEN [raised |-> result.raised]
        ELSE [raised |-> None, board |-> push(board, move), move_info |-> result.move_info]

\* one pass of the loop of convert_to_json: [raised] or [raised, board, move_info]
mainline_pass(board, move, game_nodes) ==
    LET before_fen == fen(board)
        flags == determine_flags(board, move)
        result == generate_move_info(board, move, flags, before_fen, EmptyFen, game_nodes)
        pushed == push(board, move)
    IN  IF result.raised # None
        THEN [raised |-> result.raised]
        ELSE [raised |-> None,
              board |-> pushed,
              move_info |-> [result.move_info EXCEPT !.after = fen(pushed)]]

\* the title f-string of convert_to_json
title_of(h) ==
    h["White"] \o " (White, " \o h["WhiteElo"] \o ")" \o "VS "
        \o h["Black"] \o " (Black, " \o h["BlackElo"] \o ")"

\* the header keys convert_to_json subscripts
HeaderKeys == {"Link", "White", "WhiteElo", "Black", "BlackElo"}

\* json_data as convert_to_json creates it
new_json_data(title) == [version |-> "0.0.1", header |-> [title |-> title], moves |-> <<>>]

\* the main line a game from this start may have in the model
PlyBound(position) == IF position = StandardStart THEN MaxPlyStandard ELSE MaxPly

\* the nodes of the main line that carry a comment
commented(nodes) == {i \in 1 .. Len(nodes) : nodes[i].comment # <<>>}

(***************************************************************************)
(* The reference script: parse_pgn_to_json of src/pgn2json.py, with        *)
(* POS_FLAGS the same table as Constants.POSITION_FLAGS.                   *)
(***************************************************************************)
\* the title f-string of parse_pgn_to_json
script_title(h) ==
    h["White"] \o " (White, " \o h["WhiteElo"] \o ") VS "
        \o h["Black"] \o " (Black, " \o h["BlackElo"] \o ")"

\* the header keys parse_pgn_to_json subscripts
ScriptHeaderKeys == {"White", "WhiteElo", "Black", "BlackElo"}

\* parse_pgn_to_json, "Get the flags for the move": independent ifs, a later one
\* overwriting an earlier one, and the promotion flag appended to the result
script_flags(board, move) ==
    LET capture == IF is_capture(board, move)
                   THEN (IF is_en_passant(board, move) THEN POSITION_FLAGS.en_passant
                         ELSE POSITION_FLAGS.capture)
                   ELSE POSITION_FLAGS.normal
        castling == IF is_queenside_castling(board, move)
                    THEN POSITION_FLAGS.queenside_castling
                    ELSE IF is_kingside_castling(board, move)
                         THEN POSITION_FLAGS.kingside_castling
                         ELSE capture
        double == IF /\ piece_type_at(board, move.from_square) = PAWN
                     /\ Abs(move.from_square - move.to_square) = 16
                  THEN POSITION_FLAGS.pawn_push_double
                  ELSE castling
    IN  IF move.promotion # None THEN double \o POSITION_FLAGS.promotion ELSE double

RECURSIVE script_extract_comment(_, _)
\* extract_comment of the script: `nodes` are the main-line nodes after `node`;
\* the result is the comment's characters, <<>> for None
script_extract_comment(nodes, move) ==
    IF nodes = <<>> THEN <<>>
    ELSE IF Head(nodes).move = move
         THEN (IF Head(nodes).comment # <<>> THEN replace_newlines(Head(nodes).comment)
               ELSE <<>>)
         ELSE script_extract_comment(Tail(nodes), move)

\* the "comment" entry of the three dictionaries of parse_pgn_to_json
script_comment(game_nodes, move) ==
    IF script_extract_comment(game_nodes, move) # <<>>
    THEN [type |-> "doc",
          content |-> <<[type |-> "paragraph",
                         content |-> <<[type |-> "text",
                                        text |-> join(script_extract_comment(game_nodes,
                                                                             move))]>>]>>]
    ELSE NullComment

\* the entries the three dictionaries of parse_pgn_to_json have in common
script_common(board, pushed, move, flags, game_nodes) ==
    [color |-> IF pushed.turn = WHITE THEN "b" ELSE "w",
     piece |-> lower(piece_at(board, move.from_square)),
     from |-> square_name(move.from_square),
     to |-> square_name(move.to_square),
     flags |-> join(flags),
     lan |-> uci(move),
     before |-> fen(board),
     after |-> fen(pushed),
     comment |-> script_comment(game_nodes, move)]

\* piece_captured of parse_pgn_to_json, where it is assigned
script_piece_captured(board, move) ==
    IF is_en_passant(board, move) THEN "p" ELSE lower(piece_at(board, move.to_square))

\* one pass of the loop of parse_pgn_to_json: [raised] or [raised, board, move_info];
\* None.symbol() raises AttributeError
script_pass(board, move, game_nodes) ==
    LET flags == script_flags(board, move)
        pushed == push(board, move)
        common == script_common(board, pushed, move, flags, game_nodes)
    IN  IF \/ /\ is_capture(board, move)
              /\ ~is_en_passant(board, move)
              /\ piece_at(board, move.to_square) = None
           \/ piece_at(board, move.from_square) = None
        THEN [raised |-> "AttributeError"]
        ELSE [raised |-> None,
              board |-> pushed,
              move_info |->
                  IF char_in("p", flags)
                  THEN ("promotion" :> uci_chars(move)[Len(uci_chars(move))]) @@ common
                  ELSE IF char_in("c", flags)
                       THEN ("captured" :> script_piece_captured(board, move)) @@ common
                       ELSE common]

RECURSIVE script_mainline(_, _, _, _)
\* the loop of parse_pgn_to_json over the moves not yet processed:
\* [raised] or [raised, json_data]
script_mainline(board, moves_left, game_nodes, data) ==
    IF moves_left = <<>> THEN [raised |-> None, json_data |-> data]
    ELSE IF script_pass(board, Head(moves_left).move, game_nodes).raised # None
         THEN [raised |-> script_pass(board, Head(moves_left).move, game_nodes).raised]
         ELSE script_mainline(
                  script_pass(board, Head(moves_left).move, game_nodes).board,
                  Tail(moves_left),
                  game_nodes,
                  [data EXCEPT !.moves = Append(@, script_pass(board, Head(moves_left).move,
                                                                game_nodes).move_info)])

\* parse_pgn_to_json on the game read_game returns (found = FALSE: it returns None):
\* [raised] or [raised, json_data]
parse_pgn_to_json(found, h, position, game_nodes) ==
    IF ~found THEN [raised |-> "AttributeError"]
    ELSE IF ~(ScriptHeaderKeys \subseteq DOMAIN h) THEN [raised |-> "KeyError"]
    ELSE script_mainline(position, game_nodes, game_nodes, new_json_data(script_title(h)))

(***************************************************************************)
(* The program state.                                                      *)
(***************************************************************************)
VARIABLES
    pgn_found,      \* the PGN text holds a game (read_game does not return None)
    headers,        \* game.headers
    start,          \* game.board(): the starting position
    mainline,       \* game.mainline(): the nodes, each [move, comment]
    reader_board,   \* board_stack[-1] of read_game
    pc,             \* "read_game", "header", "mainline", "done", "raised"
    board,          \* board of convert_to_json
    json_data,      \* json_data of convert_to_json
    node_index,     \* position of the mainline iterator (next node, from 1)
    saved,          \* the files written by _save_storage_json
    raised          \* the exception convert_to_json ended with, or None

vars == <<pgn_found, headers, start, mainline, reader_board, pc, board, json_data,
          node_index, saved, raised>>

(***************************************************************************)
(* Init and the actions.                                                   *)
(***************************************************************************)
Init ==
    /\ \/ /\ pgn_found = FALSE
          /\ headers = DefaultHeaders
          /\ start = StandardStart
       \/ /\ pgn_found = TRUE
          /\ \E game \in GameInputs :
                /\ headers = game.tags @@ DefaultHeaders
                /\ start = game.start
    /\ mainline = <<>>
    /\ reader_board = start
    /\ pc = "read_game"
    /\ board = start
    /\ json_data = new_json_data("")
    /\ node_index = 1
    /\ saved = <<>>
    /\ raised = None

\* read_game: one move token (a legal move, or the null move "--") with its comment
ReadMove ==
    /\ pc = "read_game"
    /\ pgn_found
    /\ Len(mainline) < PlyBound(start)
    /\ \E move \in legal_moves(reader_board) \cup {NullMove}, comment \in Comments :
          /\ comment # <<>> => Cardinality(commented(mainline)) < MaxComments
          /\ mainline' = Append(mainline, [move |-> move, comment |-> comment])
          /\ reader_board' = push(reader_board, move)
    /\ UNCHANGED <<pgn_found, headers, start, pc, board, json_data, node_index, saved, raised>>

\* read_game returns the game
ReadGame ==
    /\ pc = "read_game"
    /\ pgn_found
    /\ pc' = "header"
    /\ UNCHANGED <<pgn_found, headers, start, mainline, reader_board, board, json_data,
                   node_index, saved, raised>>

\* read_game returns None: convert_to_json raises ValueError
NoGame ==
    /\ pc = "read_game"
    /\ ~pgn_found
    /\ pc' = "raised"
    /\ raised' = "ValueError"
    /\ UNCHANGED <<pgn_found, headers, start, mainline, reader_board, board, json_data,
                   node_index, saved>>

\* convert_to_json from game.headers["Link"] to board = game.board()
BuildHeader ==
    /\ pc = "header"
    /\ IF HeaderKeys \subseteq DOMAIN headers
       THEN /\ json_data' = new_json_data(title_of(headers))
            /\ board' = start
            /\ pc' = "mainline"
            /\ UNCHANGED raised
       ELSE /\ pc' = "raised"
            /\ raised' = "KeyError"
            /\ UNCHANGED <<json_data, board>>
    /\ UNCHANGED <<pgn_found, headers, start, mainline, reader_board, node_index, saved>>

\* variant of ConvertMove: the record put in front of the list (insert(0, ...))
ConvertMovePrepend ==
    /\ pc = "mainline"
    /\ node_index <= Len(mainline)
    /\ LET pass == mainline_pass(board, mainline[node_index].move, mainline)
       IN  IF pass.raised # None
           THEN /\ pc' = "raised"
                /\ raised' = pass.raised
                /\ UNCHANGED <<board, json_data, node_index>>
           ELSE /\ board' = pass.board
                /\ json_data' = [json_data EXCEPT !.moves = <<pass.move_info>> \o @]
                /\ node_index' = node_index + 1
                /\ UNCHANGED <<pc, raised>>
    /\ UNCHANGED <<pgn_found, headers, start, mainline, reader_board, saved>>

\* convert_to_json: one pass of `for node in game.mainline()`
ConvertMove ==
    /\ pc = "mainline"
    /\ node_index <= Len(mainline)
    /\ LET pass == mainline_pass(board, mainline[node_index].move, mainline)
       IN  IF pass.raised # None
           THEN /\ pc' = "raised"
                /\ raised' = pass.raised
                /\ UNCHANGED <<board, json_data, node_index>>
           ELSE /\ board' = pass.board
                /\ json_data' = [json_data EXCEPT !.moves = Append(@, pass.move_info)]
                /\ node_index' = node_index + 1
                /\ UNCHANGED <<pc, raised>>
    /\ UNCHANGED <<pgn_found, headers, start, mainline, reader_board, saved>>

\* convert_to_json after the loop: _save_storage_json writes the file and it returns
Save ==
    /\ pc = "mainline"
    /\ node_index > Len(mainline)
    /\ saved' = Append(saved, json_data)
    /\ pc' = "done"
    /\ UNCHANGED <<pgn_found, headers, start, mainline, reader_board, board, json_data,
                   node_index, raised>>

Next == ReadMove \/ ReadGame \/ NoGame \/ BuildHeader \/ ConvertMove \/ Save

Spec == Init /\ [][Next]_vars

(***************************************************************************)
(* Vocabulary of the properties.                                           *)
(***************************************************************************)
\* the records appended so far
Records == json_data.moves

\* the plies that have a record
Plies == 1 .. Len(Records)

\* the move of the k-th main-line node
MoveOf(k) == mainline[k].move

RECURSIVE PositionAfter(_)
\* the position after the first k moves of the main line, replayed from the start
PositionAfter(k) == IF k = 0 THEN start ELSE push(PositionAfter(k - 1), MoveOf(k))

\* the position in which the k-th move is applied
PositionBefore(k) == PositionAfter(k - 1)

\* the letter of a side
SideLetter(color) == IF color = WHITE THEN "w" ELSE "b"

\* the k-th move is a pawn's two-square push
TwoSquarePush(k) ==
    /\ piece_type_at(PositionBefore(k), MoveOf(k).from_square) = PAWN
    /\ Abs(MoveOf(k).from_square - MoveOf(k).to_square) = 16

\* the k-th move finds no piece on its origin square
OriginEmpty(k) == piece_at(PositionBefore(k), MoveOf(k).from_square) = None

RECURSIVE FirstOriginEmptyFrom(_, _)
\* the first move from the k-th on that finds no piece on its origin square, if any
FirstOriginEmptyFrom(k, position) ==
    IF k > Len(mainline) THEN {}
    ELSE IF piece_at(position, MoveOf(k).from_square) = None THEN {k}
    ELSE FirstOriginEmptyFrom(k + 1, push(position, MoveOf(k)))

\* the first main-line move that finds no piece on its origin square, if any
FirstOriginEmpty == FirstOriginEmptyFrom(1, start)

\* the "comment" value the k-th node's own annotation gives
OwnComment(k) ==
    IF mainline[k].comment = <<>> THEN NullComment
    ELSE [type |-> "doc",
          content |-> <<[type |-> "paragraph",
                         content |-> <<[type |-> "text",
                                        text |-> join(replace_newlines(mainline[k].comment))]>>]>>]

\* the tests of the flag decision in their order, each with the code it gives
FlagTests(position, move) ==
    <<[holds |-> is_capture(position, move),
       code |-> IF is_en_passant(position, move) THEN POSITION_FLAGS.en_passant
                ELSE POSITION_FLAGS.capture],
      [holds |-> is_kingside_castling(position, move),
       code |-> POSITION_FLAGS.kingside_castling],
      [holds |-> is_queenside_castling(position, move),
       code |-> POSITION_FLAGS.queenside_castling],
      [holds |-> /\ piece_type_at(position, move.from_square) = PAWN
                 /\ Abs(move.from_square - move.to_square) = 16,
       code |-> POSITION_FLAGS.pawn_push_double],
      [holds |-> move.promotion # None,
       code |-> POSITION_FLAGS.promotion],
      [holds |-> TRUE,
       code |-> POSITION_FLAGS.normal]>>

\* the code of the first test that holds
FirstMatch(tests) ==
    tests[CHOOSE i \in 1 .. Len(tests) :
              tests[i].holds /\ \A j \in 1 .. (i - 1) : ~tests[j].holds].code

\* a pawn of the side to move stands beside the pawn just pushed to `pushed_to` and can
\* capture it on the square `passed` without leaving its own king attacked
EnPassantPlayable(position, pushed_to, passed) ==
    \E from \in Squares :
        /\ square_rank(from) = square_rank(pushed_to)
        /\ Abs(square_file(from) - square_file(pushed_to)) = 1
        /\ position.pieces[from] = piece_symbol(PAWN, position.turn)
        /\ ~leaves_king_attacked(position, Move(from, passed, None))

(***************************************************************************)
(* C1: every record's color is the side that made the move: the side to    *)
(* move in its `before` position and the opposite of the side to move in   *)
(* its `after` position.                                                   *)
(***************************************************************************)
C1_ColorIsMover ==
    \A k \in Plies :
        /\ Records[k].color = Records[k].before[2]
        /\ Records[k].color # Records[k].after[2]
        /\ Records[k].color = SideLetter(PositionBefore(k).turn)

(***************************************************************************)
(* C2: a move with a promotion kind gives a record whose `promotion` is    *)
(* the lowercase letter of that kind, whether its flag is promotion or     *)
(* capture; a move without one gives a record with no `promotion` field.   *)
(***************************************************************************)
C2_PromotionField ==
    \A k \in Plies :
        IF MoveOf(k).promotion # None
        THEN "promotion" \in DOMAIN Records[k] /\ Records[k].promotion = MoveOf(k).promotion
        ELSE "promotion" \notin DOMAIN Records[k]

(***************************************************************************)
(* C3: every en-passant capture gives a record flagged with the en-passant *)
(* code that carries captured = "p".                                       *)
(***************************************************************************)
C3_EnPassantCaptured ==
    \A k \in Plies :
        is_en_passant(PositionBefore(k), MoveOf(k)) =>
            /\ Records[k].flags = join(POSITION_FLAGS.en_passant)
            /\ "captured" \in DOMAIN Records[k]
            /\ Records[k].captured = "p"

(***************************************************************************)
(* C4: the `after` encoding of record k is the `before` encoding of record *)
(* k+1, and the `before` encoding of the first record is the encoding of   *)
(* the game's starting position.                                           *)
(***************************************************************************)
C4_AfterIsNextBefore ==
    /\ \A k \in Plies : k + 1 \in Plies => Records[k].after = Records[k + 1].before
    /\ 1 \in Plies => Records[1].before = fen(start)

\* two records whose shared position differs from the start
C4_Witness ==
    /\ Len(Records) >= 2
    /\ Records[1].after = Records[2].before
    /\ Records[1].after # Records[1].before

(***************************************************************************)
(* C5: the flag of a record is the code of the first matching test in the  *)
(* order capture (en passant or plain), kingside castle, queenside castle, *)
(* double pawn push, promotion, normal; so a capturing promotion is        *)
(* flagged capture and a capture is never flagged double pawn push.        *)
(***************************************************************************)
C5_FlagPriority ==
    \A k \in Plies :
        LET position == PositionBefore(k)
        IN  /\ Records[k].flags = join(FirstMatch(FlagTests(position, MoveOf(k))))
            /\ is_capture(position, MoveOf(k)) =>
                   Records[k].flags \in {join(POSITION_FLAGS.capture),
                                         join(POSITION_FLAGS.en_passant)}

\* a capturing promotion has been recorded, flagged capture
C5_Witness ==
    \E k \in Plies :
        /\ MoveOf(k).promotion # None
        /\ is_capture(PositionBefore(k), MoveOf(k))
        /\ Records[k].flags = join(POSITION_FLAGS.capture)

(***************************************************************************)
(* C6: when a move of the main line finds no piece on its origin square,   *)
(* convert_to_json raises at the first such move, gives no record to it or *)
(* to a later move and writes no file; a file is written only with one     *)
(* record for every move of the game.                                      *)
(***************************************************************************)
C6_MissingPieceAborts ==
    /\ \A k \in FirstOriginEmpty :
          /\ Len(Records) < k
          /\ node_index <= k
          /\ saved = <<>>
          /\ pc # "done"
          /\ (pc = "raised" /\ raised = "ValueError") => node_index = k
    /\ (pc = "raised" /\ raised = "ValueError" /\ pgn_found) =>
           node_index \in FirstOriginEmpty
    /\ \A i \in 1 .. Len(saved) : Len(saved[i].moves) = Len(mainline)

\* the conversion raised at a move that later moves follow
C6_Witness ==
    /\ pc = "raised"
    /\ raised = "ValueError"
    /\ node_index \in FirstOriginEmpty
    /\ node_index < Len(mainline)
    /\ saved = <<>>

(***************************************************************************)
(* C7: header.title is exactly                                             *)
(* "<White> (White, <WhiteElo>) VS <Black> (Black, <BlackElo>)", with one  *)
(* space on each side of "VS".                                             *)
(***************************************************************************)
C7_TitleFormat ==
    pc \in {"mainline", "done"} =>
        json_data.header.title =
            headers["White"] \o " (White, " \o headers["WhiteElo"] \o ") VS "
                \o headers["Black"] \o " (Black, " \o headers["BlackElo"] \o ")"

(***************************************************************************)
(* C8: the comment of the k-th record is built from the annotation of the  *)
(* k-th main-line node and is null when that node has none, also when the  *)
(* k-th move equals the move of an earlier ply.                            *)
(***************************************************************************)
C8_CommentOfOwnNode ==
    \A k \in Plies : Records[k].comment = OwnComment(k)

(***************************************************************************)
(* C9: a successful conversion appends exactly one record per move of the  *)
(* main line, in game order: the moves list is as long as the main line    *)
(* and its k-th record has the from, to and lan of the k-th move.          *)
(***************************************************************************)
C9_OneRecordPerMove ==
    /\ pc \in {"mainline", "done"} => Len(Records) = node_index - 1
    /\ pc = "done" => Len(Records) = Len(mainline) /\ saved = <<json_data>>
    /\ \A k \in Plies :
          /\ k <= Len(mainline)
          /\ Records[k].from = square_name(MoveOf(k).from_square)
          /\ Records[k].to = square_name(MoveOf(k).to_square)
          /\ Records[k].lan = uci(MoveOf(k))

\* a finished conversion of a game of two different moves
C9_Witness ==
    /\ pc = "done"
    /\ Len(saved) = 1
    /\ Len(saved[1].moves) = 2
    /\ Len(mainline) = 2
    /\ MoveOf(1) # MoveOf(2)

AbsentTags ==
    {key \in HeaderKeys :
        \/ key \notin DOMAIN headers
        \/ key \in DOMAIN DefaultHeaders /\ headers[key] = DefaultHeaders[key]}

C11_MissingHeaderFailsFast ==
    (pgn_found /\ AbsentTags # {}) =>
        /\ pc \in {"read_game", "header", "raised"}
        /\ pc = "raised" => raised = "KeyError"
        /\ Records = <<>>
        /\ board = start
        /\ saved = <<>>
        /\ json_data.header.title = ""

(***************************************************************************)
(* C12: the record of a plain capture (an opposing piece stands on the     *)
(* destination square) has a `captured` field, the lowercase letter of the *)
(* kind of the piece on the destination square in the `before` position,   *)
(* never null and not read from the piece that moves there; the record of  *)
(* a move that is not a capture has no `captured` field.                   *)
(***************************************************************************)
\* the piece on the destination square of the k-th move, before the move
PieceTaken(k) == piece_at(PositionBefore(k), MoveOf(k).to_square)

\* the k-th move takes an opposing piece standing on its destination square
PlainCapture(k) ==
    /\ MoveOf(k) # NullMove
    /\ PieceTaken(k) # None
    /\ piece_color(PieceTaken(k)) # PositionBefore(k).turn

ScriptOutput == parse_pgn_to_json(pgn_found, headers, start, mainline)

C13_SameOutputAsScript ==
    /\ pc = "raised" => ScriptOutput.raised # None
    /\ pc = "done" =>
          /\ ScriptOutput.raised = None
          /\ ScriptOutput.json_data.header.title = json_data.header.title
          /\ Len(ScriptOutput.json_data.moves) = Len(Records)
          /\ \A k \in Plies : ScriptOutput.json_data.moves[k] = Records[k]

====
